---- MODULE Spec2Model ----
(***************************************************************************)
(* Model of the fleet action orchestrator of the instance scheduler        *)
(* (source/code/schedulers/ec2_service.py): the batching generator         *)
(* instance_batches, and the start and stop paths of Ec2Service with the   *)
(* provider modelled as a nondeterministic environment in which every call *)
(* either returns or raises.                                               *)
(***************************************************************************)
EXTENDS Integers, Sequences, FiniteSets, TLC

\* ------------------------------------------------------------------------
\* Bounds of the model
\* ------------------------------------------------------------------------
\* largest number of target instances of one start or stop run
MaxTargets == 3
\* cap on the batch size used by the start and stop runs (the program's
\* sizes are START_BATCH_SIZE and STOP_BATCH_SIZE; the runs use the smaller
\* of the program's size and this cap so that a run has several batches)
MaxBatch == 2
\* largest number of instances that are members of an autoscaling group
MaxAsg == 1
\* longest input sequence and largest small size given to instance_batches
MaxGenLen == 12
MaxGenSize == 6

\* ------------------------------------------------------------------------
\* Program constants
\* ------------------------------------------------------------------------
START_BATCH_SIZE == 5
STOP_BATCH_SIZE == 50

EC2_STATE_PENDING == 0
EC2_STATE_RUNNING == 16
EC2_STATE_SHUTTING_DOWN == 32
EC2_STATE_TERMINATED == 48
EC2_STATE_STOPPING == 64
EC2_STATE_STOPPED == 80

EC2_STATES ==
    {EC2_STATE_PENDING, EC2_STATE_RUNNING, EC2_STATE_SHUTTING_DOWN,
     EC2_STATE_TERMINATED, EC2_STATE_STOPPING, EC2_STATE_STOPPED}
EC2_SCHEDULABLE_STATES == {EC2_STATE_RUNNING, EC2_STATE_STOPPED}
EC2_STOPPING_STATES == {EC2_STATE_SHUTTING_DOWN, EC2_STATE_STOPPING, EC2_STATE_STOPPED}
EC2_STARTING_STATES == {EC2_STATE_PENDING, EC2_STATE_RUNNING}

\* InstanceSchedule.STATE_RUNNING / STATE_STOPPED, the states of the output pairs
STATE_RUNNING == "running"
STATE_STOPPED == "stopped"

\* self._logger after _init_scheduler(kwargs) and after _init_scheduler(inst)
LoggerSet == "set"
LoggerNone == "none"

\* ------------------------------------------------------------------------
\* Helpers
\* ------------------------------------------------------------------------
SeqToSet(s) == {s[i] : i \in DOMAIN s}
Min(a, b) == IF a < b THEN a ELSE b
Max(a, b) == IF a > b THEN a ELSE b

RECURSIVE Concat(_)
Concat(ss) == IF ss = <<>> THEN <<>> ELSE Head(ss) \o Concat(Tail(ss))

\* state & 0xFF
LowByte(state) == state % 256

is_in_stopping_state(state) == LowByte(state) \in EC2_STOPPING_STATES
is_in_starting_state(state) == LowByte(state) \in EC2_STARTING_STATES

\* ------------------------------------------------------------------------
\* instance_batches: the generator of ec2_service.py lines 91-100
\* ------------------------------------------------------------------------
\* a buffer that yields one element too late
BufferFullOffByOne(buffer, size) == Len(buffer) = size + 1

\* line 96: len(instance_buffer) == size
BufferFull(buffer, size) == Len(buffer) = size

\* line 99: len(instance_buffer) > 0
BufferLeft(buffer) == Len(buffer) > 0

\* the whole generator run to exhaustion, as the list of the batches it yields
RECURSIVE BatchesFrom(_, _, _)
BatchesFrom(instances, buffer, size) ==
    IF instances = <<>>
    THEN IF BufferLeft(buffer) THEN <<buffer>> ELSE <<>>
    ELSE LET buf == Append(buffer, Head(instances))
         IN  IF BufferFull(buf, size)
             THEN <<buf>> \o BatchesFrom(Tail(instances), <<>>, size)
             ELSE BatchesFrom(Tail(instances), buf, size)

instance_batches(instances, size) == BatchesFrom(instances, <<>>, size)

VARIABLES
    \* --- the generator instance_batches, stepped one loop iteration at a time
    genInput,          \* the argument `instances`
    genSize,           \* the argument `size`
    genRest,           \* the part of `instances` the for loop has not visited
    instance_buffer,   \* the local instance_buffer
    genYielded,        \* the batches yielded so far, in order
    genPc,             \* "idle" | "loop" | "done"
    \* --- one run of start_instances or stop_instances: its inputs
    mode,              \* "start" | "stop" | "idle"
    targets,           \* ids of PARAM_STARTED_INSTANCES / PARAM_STOPPED_INSTANCES
    started_tags,      \* keys of config.started_tags
    stopped_tags,      \* keys of config.stopped_tags
    \* --- the run's control state and locals
    pc,                \* position in the generator body
    logger,            \* self._logger: LoggerSet or LoggerNone
    batchIdx,          \* number of batches the for loop has entered
    instance_batch,    \* the batch being processed, with i.hibernate and i.resized
                       \* as lines 444-447 read them
    hibernated,        \* local hibernated (stop path)
    not_hibernated,    \* local not_hibernated (stop path)
    instances_confirmed, \* local instances_starting / instances_stopping
    get_status_count,  \* local get_status_count
    asg_instances,     \* local asg_instances (stop path), as instance ids
    instances_info,    \* local instances_info (start path): the ids that carry
                       \* the tag aws:autoscaling:groupName
    asg_todo,          \* rest of the for loop over asg_instances / instances_info
    asg_unlisted,      \* autoscaling members the provider holds on the pages after
                       \* the first one of describe_auto_scaling_instances (a fact
                       \* of the environment, fixed when the run starts)
    \* --- what an observer of the run has seen
    obs,
    \* --- discovery (get_schedulable_instances), one page per step
    inventory,         \* the provider's instances in inventory order; the id of an
                       \* instance is its position
    next_token,        \* number of inventory entries on the pages fetched so far
    disc_instances,    \* the local `instances`: ids selected so far, in order
    number_of_instances, \* the local number_of_instances
    disc_pages,        \* number of pages fetched
    discPc,            \* "idle" | "fetch" | "done"
    \* --- loading one maintenance window (ssm_maintenance_windows)
    mw_start,          \* NextExecutionTime of the window, in seconds
    mw_hours,          \* Duration of the window
    mw_frequency,      \* the configured scheduler frequency, in minutes
    mw_schedule,       \* the periods of the schedule built for the window
    mwPc,              \* "idle" | "load" | "done"
    mw_listing,        \* the window names the provider listing contains
    mw_loaded,         \* FALSE while _ssm_maintenance_windows is None
    mw_cache,          \* _ssm_maintenance_windows: window name -> value
    mw_trace,          \* ghost: one entry per instance record built
    wd_expr,           \* the weekday expression handed to the builder
    wd_ctx,            \* year, month, day of the builder, as the month's shape
    wd_result,         \* what building the expression gave
    wdPc,              \* "idle" | "build" | "done"
    resize_todo,       \* the instances still to be resized
    resize_logger,     \* self._logger of the service: "none" | "set"
    resize_trace,      \* ghost: one entry per call of resize_instance
    resizePc,          \* "idle" | "run" | "done" | "aborted"
    rh_props,          \* the property names of the schedule resource, Periods aside
    rh_periods,        \* the property names of each period of the resource
    rh_store,          \* the configuration store: the schedule and its periods
    rh_result,         \* "none" | "True" | "False": what the request returned
    rh_request,        \* "none" | "Create" | "Update": the request handled
    rh_trace,          \* ghost: the store before the request, the periods
                       \* it created, the call of the store that raised
    rhPc,              \* "idle" | "request" | "done"
    cfg_configuration, \* the global __configuration
    cfg_loads,         \* the number of configurations loaded and built
    cfg_trace          \* ghost: one entry per call

genVars == <<genInput, genSize, genRest, instance_buffer, genYielded, genPc>>
inputVars == <<mode, targets, started_tags, stopped_tags>>
localVars == <<instance_batch, hibernated, not_hibernated, instances_confirmed,
               get_status_count, asg_instances, instances_info, asg_todo,
               asg_unlisted>>
runVars == <<inputVars, pc, logger, batchIdx, localVars, obs>>
discVars == <<inventory, next_token, disc_instances, number_of_instances,
              disc_pages, discPc>>
mwVars == <<mw_start, mw_hours, mw_frequency, mw_schedule, mwPc>>
lookupVars == <<mw_listing, mw_loaded, mw_cache, mw_trace>>
wdVars == <<wd_expr, wd_ctx, wd_result, wdPc>>
resizeVars == <<resize_todo, resize_logger, resize_trace, resizePc>>
handlerVars == <<rh_props, rh_periods, rh_store, rh_result, rh_request, rh_trace,
                 rhPc>>
configVars == <<cfg_configuration, cfg_loads, cfg_trace>>
auxVars == <<lookupVars, wdVars, resizeVars, handlerVars, configVars>>
vars == <<genVars, runVars, discVars, mwVars, auxVars>>

\* what a step of one component leaves alone
nonRunVars == <<genVars, discVars, mwVars, auxVars>>
nonGenVars == <<runVars, discVars, mwVars, auxVars>>
nonDiscVars == <<genVars, runVars, mwVars, auxVars>>
nonMwVars == <<genVars, runVars, discVars, auxVars>>
nonLookupVars == <<genVars, runVars, discVars, mwVars, wdVars,
    resizeVars,
    handlerVars,
    configVars>>
nonWdVars == <<genVars, runVars, discVars, mwVars, lookupVars,
    resizeVars,
    handlerVars,
    configVars>>
nonResizeVars == <<genVars, runVars, discVars, mwVars,
    lookupVars, wdVars,
    handlerVars,
    configVars>>
nonHandlerVars == <<genVars, runVars, discVars, mwVars,
    lookupVars, wdVars, resizeVars,
    configVars>>
nonConfigVars == <<genVars, runVars, discVars, mwVars,
    lookupVars, wdVars, resizeVars, handlerVars>>

\* discovery and window loading while another component is exercised
DiscIdle ==
    /\ inventory = <<>>
    /\ next_token = 0
    /\ disc_instances = <<>>
    /\ number_of_instances = 0
    /\ disc_pages = 0
    /\ discPc = "idle"

MwIdle ==
    /\ mw_start = 0
    /\ mw_hours = 0
    /\ mw_frequency = 0
    /\ mw_schedule = <<>>
    /\ mwPc = "idle"

LookupIdle ==
    /\ mw_listing = {}
    /\ mw_loaded = FALSE
    /\ mw_cache = <<>>
    /\ mw_trace = <<>>

WdIdle ==
    /\ wd_expr = <<>>
    /\ wd_ctx = <<>>
    /\ wd_result = <<>>
    /\ wdPc = "idle"

ResizeIdle ==
    /\ resize_todo = <<>>
    /\ resize_logger = "none"
    /\ resize_trace = <<>>
    /\ resizePc = "idle"

HandlerIdle ==
    /\ rh_props = {}
    /\ rh_periods = <<>>
    /\ rh_store = [schedule |-> FALSE, periods |-> {}]
    /\ rh_result = "none"
    /\ rh_request = "none"
    /\ rh_trace = <<>>
    /\ rhPc = "idle"

ConfigIdle ==
    /\ cfg_configuration = 0
    /\ cfg_loads = 0
    /\ cfg_trace = <<>>

AuxIdle == LookupIdle /\ WdIdle /\ ResizeIdle /\ HandlerIdle /\ ConfigIdle

\* ------------------------------------------------------------------------
\* The run: values shared by the start path and the stop path
\* ------------------------------------------------------------------------
\* instance_id = None
NoId == 0

AllIds == 1 .. MaxTargets

\* the tag keys the started and stopped tag lists draw from
TagKeys == {"state"}

RECURSIVE SortedSeq(_)
SortedSeq(S) ==
    IF S = {} THEN <<>>
    ELSE LET m == CHOOSE x \in S : \A y \in S : x <= y
         IN  <<m>> \o SortedSeq(S \ {m})

\* [i.id for i in instance_batch]
IdsOf(batch) == [p \in DOMAIN batch |-> batch[p].id]

\* the batch size of the run: START_BATCH_SIZE (line 541) or STOP_BATCH_SIZE
\* (line 439), capped by MaxBatch
BatchSize ==
    Min(IF mode = "start" THEN START_BATCH_SIZE ELSE STOP_BATCH_SIZE, MaxBatch)

\* the batches visited last to first
BatchesReversed ==
    LET bs == instance_batches(targets, BatchSize)
    IN  [k \in DOMAIN bs |-> bs[Len(bs) + 1 - k]]

\* the batches of ids the for loop of line 439 / 541 visits, in order
Batches == instance_batches(targets, BatchSize)

\* instance_ids of the batch being processed
instance_ids == IdsOf(instance_batch)

\* the number of the batch an id belongs to by its position in the targets
BatchOfId(i) ==
    LET p == CHOOSE q \in DOMAIN targets : targets[q] = i
    IN  ((p - 1) \div BatchSize) + 1

\* the state codes the provider reports in the model: one of the starting
\* family and one of the stopping family
ReportedStates == {EC2_STATE_RUNNING, EC2_STATE_STOPPED}

\* a start, stop or describe response: the state code reported for each id
\* (an id the response leaves out counts like an id reported in another state)
Responses(ids) == [SeqToSet(ids) -> ReportedStates]

\* is_in_starting_state (line 526) in the start path, is_in_stopping_state
\* (line 421) in the stop path
InFamily(state) ==
    IF mode = "start" THEN is_in_starting_state(state) ELSE is_in_stopping_state(state)

\* [i["InstanceId"] for i in ... if is_in_..._state(code)], lines 463, 482, 491, 546, 553
Confirmed(ids, resp) == SelectSeq(ids, LAMBDA i : InFamily(resp[i]))

\* hibernated.remove(instance_id)
Remove(s, x) == SelectSeq(s, LAMBDA i : i # x)

\* a delete that does not spare the keys about to be created
DeleteKeysAll == IF mode = "start" THEN stopped_tags ELSE started_tags

\* lines 536 / 432: the keys to delete
DeleteKeys ==
    IF mode = "start" THEN stopped_tags \ started_tags ELSE started_tags \ stopped_tags

\* lines 532 / 427: the tags to create
CreateKeys == IF mode = "start" THEN started_tags ELSE stopped_tags

\* every pair yielded as running
YieldRunning == STATE_RUNNING

\* the state of the pairs the run yields, lines 518 / 580
YieldState == IF mode = "start" THEN STATE_RUNNING ELSE STATE_STOPPED

\* where the generator continues after the for loop over the batches: the
\* stop path ends, the start path goes on to line 585
PcAfterLoop == IF mode = "start" THEN "settle" ELSE "done"

\* a tagging failure that escapes to the handler around the batch body
PcAfterTagFailureSkipsYield == "loop"

\* lines 514-518 / 576-580: the handler logs the warning and the yield follows
PcAfterTagFailure == "yield"

\* lines 504-518 / 566-580 up to the first provider call: with nothing
\* confirmed the batch is over; a log call on a logger that is None raises
\* inside the try, the handler's own log call raises again and the handler
\* around the batch body ends the batch
PcTags(conf) ==
    IF conf = <<>> THEN "loop"
    ELSE IF DeleteKeys # {}
         THEN IF logger = LoggerNone THEN "loop" ELSE "tag_delete"
    ELSE IF CreateKeys # {}
         THEN IF logger = LoggerNone THEN "loop" ELSE "tag_create"
    ELSE "yield"

\* lines 487-488 / 549-550
PcAfterCall(conf) ==
    IF Len(conf) < Len(instance_ids) THEN "poll" ELSE PcTags(conf)

\* lines 479 and 487: after the hibernating stop loop
PcAfterHib(nh, conf) == IF nh # <<>> THEN "nonhib" ELSE PcAfterCall(conf)

\* ------------------------------------------------------------------------
\* Observations
\* ------------------------------------------------------------------------
ObsInit ==
    [\* of the invocations before this one
     prior |-> {},           \* ids an earlier invocation yielded as STOPPED
     \* of the whole run
     out |-> <<>>,           \* the pairs yielded, in order
     submitted |-> {},       \* ids given to a start or stop call
     faults |-> {},          \* "rejection": a stop call raised hibernation-unsupported
                             \* for an id of hibernated; "asg": an autoscaling call
                             \* raised; "error": another call raised
     evIds |-> {},           \* ids of the latest provider call or yield
     hi |-> 0,               \* highest batch number a provider call or yield was for
     suspended |-> {},       \* ids whose autoscaling group suspend_processes was called for
     resumed |-> {},         \* ids whose autoscaling group a resume was attempted for
     \* of the batch being processed
     warnings |-> {},        \* <<message, id>> logged as a warning
     rejected |-> {},        \* ids of hibernated a rejection named
     failed |-> {},          \* <<ids, Hibernate>> of the calls that raised another error
     resubmitted |-> FALSE,  \* a failed call was issued again with the same arguments
     retries |-> 0,          \* number of such repeated calls, modulo 2
     short |-> FALSE,        \* a start/stop response confirmed fewer ids than asked
     nohib |-> {},           \* ids given to a stop call with Hibernate=False
     hib |-> {},             \* ids given to a stop call with Hibernate=True
     tagFailed |-> {},       \* ids whose tag delete or create raised
     tagCalls |-> <<>>]      \* the tag calls issued: <<"delete" | "create", ids, keys>>

\* the observations of a new batch
ObsNewBatch(o) ==
    [o EXCEPT !.warnings = {}, !.rejected = {}, !.failed = {},
              !.resubmitted = FALSE, !.retries = 0, !.short = FALSE, !.nohib = {}, !.hib = {},
              !.tagFailed = {}, !.tagCalls = <<>>]

\* a provider call or a yield for the ids
ObsEvent(o, ids) ==
    LET bs == {BatchOfId(i) : i \in SeqToSet(ids)}
        top == CHOOSE b \in bs : \A c \in bs : c <= b
    IN  [o EXCEPT !.evIds = SeqToSet(ids), !.hi = Max(@, top)]

\* a start or stop call for the ids
ObsCall(o, ids, hib) ==
    LET o1 == ObsEvent(o, ids)
        again == <<ids, hib>> \in o.failed
    IN  [o1 EXCEPT !.submitted = @ \cup SeqToSet(ids),
                   !.nohib = IF hib THEN @ ELSE @ \cup SeqToSet(ids),
                   !.hib = IF hib THEN @ \cup SeqToSet(ids) ELSE @,
                   !.resubmitted = @ \/ again,
                   !.retries = IF again THEN (@ + 1) % 2 ELSE @]

\* the response of a start or stop call for ids: it confirmed conf
ObsResponse(o, ids, conf) == [o EXCEPT !.short = @ \/ (Len(conf) < Len(ids))]

\* a delete_tags or create_tags call for the ids with the keys
ObsTagCall(o, op, ids, keys) ==
    [ObsEvent(o, ids) EXCEPT !.tagCalls = Append(@, <<op, ids, keys>>)]

ObsFault(o, kind) == [o EXCEPT !.faults = @ \cup {kind}]

ObsWarn(o, msg, ids) == [o EXCEPT !.warnings = @ \cup {<<msg, i>> : i \in ids}]

\* the run's variables while only the generator is exercised
RunIdle ==
    /\ mode = "idle"
    /\ targets = <<>>
    /\ started_tags = {}
    /\ stopped_tags = {}
    /\ pc = "idle"
    /\ logger = LoggerNone
    /\ batchIdx = 0
    /\ instance_batch = <<>>
    /\ hibernated = <<>>
    /\ not_hibernated = <<>>
    /\ instances_confirmed = <<>>
    /\ get_status_count = 0
    /\ asg_instances = <<>>
    /\ instances_info = <<>>
    /\ asg_todo = <<>>
    /\ asg_unlisted = {}
    /\ obs = ObsInit

GenSizes == (1 .. MaxGenSize) \cup {START_BATCH_SIZE, STOP_BATCH_SIZE}

GenIdle ==
    /\ genInput = <<>>
    /\ genSize = 1
    /\ genRest = <<>>
    /\ instance_buffer = <<>>
    /\ genYielded = <<>>
    /\ genPc = "idle"

\* lines 94-98: one iteration of the for loop
GenLoop ==
    /\ genPc = "loop"
    /\ genRest # <<>>
    /\ LET buf == Append(instance_buffer, Head(genRest))
       IN  IF BufferFull(buf, genSize)
           THEN /\ genYielded' = Append(genYielded, buf)
                /\ instance_buffer' = <<>>
           ELSE /\ instance_buffer' = buf
                /\ UNCHANGED genYielded
    /\ genRest' = Tail(genRest)
    /\ UNCHANGED <<genInput, genSize, genPc>>
    /\ UNCHANGED nonGenVars

\* lines 99-100: the input is exhausted
GenEnd ==
    /\ genPc = "loop"
    /\ genRest = <<>>
    /\ genYielded' = IF BufferLeft(instance_buffer)
                     THEN Append(genYielded, instance_buffer)
                     ELSE genYielded
    /\ genPc' = "done"
    /\ UNCHANGED <<genInput, genSize, genRest, instance_buffer>>
    /\ UNCHANGED nonGenVars

InitBatch ==
    /\ \E n \in 0 .. MaxGenLen : genInput = [i \in 1 .. n |-> i]
    /\ genSize \in GenSizes
    /\ genRest = genInput
    /\ instance_buffer = <<>>
    /\ genYielded = <<>>
    /\ genPc = "loop"
    /\ RunIdle
    /\ DiscIdle
    /\ AuxIdle
    /\ MwIdle

NextBatch == GenLoop \/ GenEnd

SpecBatch == InitBatch /\ [][NextBatch]_vars


\* ------------------------------------------------------------------------
\* The start path and the stop path (start_instances, stop_instances)
\* ------------------------------------------------------------------------
\* the fields of an instance the stop path reads besides its id: lines 444
\* and 447 evaluate `i.hibernate and ... i.resized`, which reads i.resized
\* only of an instance whose hibernate is true
Attributes ==
    {[hibernate |-> FALSE, resized |-> FALSE]}
        \cup [hibernate : {TRUE}, resized : BOOLEAN]

\* the records of a batch of ids: the attributes are what lines 444-447 read
\* when the batch is entered; the start path reads the id only
BatchRecords(ids) ==
    IF mode = "stop"
    THEN {[p \in DOMAIN ids |-> [id |-> ids[p], hibernate |-> f[p].hibernate,
                                  resized |-> f[p].resized]] :
          f \in [DOMAIN ids -> Attributes]}
    ELSE {[p \in DOMAIN ids |-> [id |-> ids[p], hibernate |-> FALSE,
                                  resized |-> FALSE]]}

\* the sets of instances the autoscaling query or the discovery can report
AsgSets == {S \in SUBSET AllIds : Cardinality(S) <= MaxAsg}

Init ==
    /\ GenIdle
    /\ DiscIdle
    /\ AuxIdle
    /\ MwIdle
    /\ mode \in {"start", "stop"}
    /\ \E n \in 0 .. MaxTargets : targets = [p \in 1 .. n |-> p]
    /\ started_tags \in SUBSET TagKeys
    /\ stopped_tags \in SUBSET TagKeys
    /\ pc = IF mode = "start" THEN "discover" ELSE "asg_query"
    /\ logger = LoggerSet
    /\ batchIdx = 0
    /\ instance_batch = <<>>
    /\ hibernated = <<>>
    /\ not_hibernated = <<>>
    /\ instances_confirmed = <<>>
    /\ get_status_count = 0
    /\ asg_instances = <<>>
    /\ instances_info = <<>>
    /\ asg_todo = <<>>
    /\ asg_unlisted = {}
    /\ obs = ObsInit

\* an exception that reaches the handler around the batch body: line 520
\* passes, line 582 logs the error; the for loop goes on with the next batch
BatchException(o) ==
    /\ pc' = "loop"
    /\ obs' = o
    /\ UNCHANGED <<inputVars, logger, batchIdx, localVars, nonRunVars>>

\* start path, lines 529-539: discovery (get_schedulable_instances) runs
\* before the first batch and outside every try
Discover ==
    /\ pc = "discover"
    /\ \/ \E S \in AsgSets :
            /\ instances_info' = SortedSeq(S)
            /\ pc' = "loop"
            /\ obs' = obs
       \/ /\ pc' = "aborted"
          /\ obs' = ObsFault(obs, "error")
          /\ UNCHANGED instances_info
    /\ UNCHANGED <<inputVars, logger, batchIdx, instance_batch, hibernated,
                   not_hibernated, instances_confirmed, get_status_count,
                   asg_instances, asg_todo, asg_unlisted, nonRunVars>>

\* stop path, lines 401-437: the autoscaling membership query. The loop of
\* line 410 makes one call: line 419 sets done whatever the response holds
\* and no NextToken is read, so asg_instances is the first page only. When
\* the call raises, line 414 logs and line 415 reads ec2_resp, which was
\* never assigned: the error leaves the generator
AsgQuery ==
    /\ pc = "asg_query"
    /\ \/ \E S \in AsgSets :
            /\ S \cap asg_unlisted = {}
            /\ asg_instances' = SortedSeq(S)
            /\ pc' = "loop"
            /\ obs' = obs
       \/ /\ pc' = "aborted"
          /\ obs' = ObsFault(obs, "asg")
          /\ UNCHANGED asg_instances
    /\ UNCHANGED <<inputVars, logger, batchIdx, instance_batch, hibernated,
                   not_hibernated, instances_confirmed, get_status_count,
                   instances_info, asg_todo, asg_unlisted, nonRunVars>>

\* the head of the for loop: lines 439-450 (stop) and 541-543 (start)
BeginBatch ==
    /\ pc = "loop"
    /\ IF batchIdx >= Len(Batches)
       THEN /\ pc' = PcAfterLoop
            /\ UNCHANGED <<logger, batchIdx, localVars, obs>>
       ELSE \E batch \in BatchRecords(Batches[batchIdx + 1]) :
            LET ids == IdsOf(batch)
                hib == IdsOf(SelectSeq(batch, LAMBDA i : i.hibernate /\ ~i.resized))
                nothib == SelectSeq(ids, LAMBDA i : i \notin SeqToSet(hib))
                resized == {i.id : i \in {j \in SeqToSet(batch) :
                                            j.hibernate /\ j.resized}}
                members == SelectSeq(asg_instances, LAMBDA i : i \in SeqToSet(ids))
                o1 == ObsNewBatch(obs)
            IN  /\ batchIdx' = batchIdx + 1
                /\ instance_batch' = batch
                /\ get_status_count' = 0
                /\ instances_confirmed' = <<>>
                /\ UNCHANGED <<logger, asg_instances, instances_info, asg_unlisted>>
                /\ IF mode = "start"
                   THEN /\ pc' = "start_call"
                        /\ obs' = o1
                        /\ UNCHANGED <<hibernated, not_hibernated, asg_todo>>
                   ELSE /\ hibernated' = hib
                        /\ not_hibernated' = nothib
                        /\ asg_todo' = members
                        \* the log call of line 448 is outside every try
                        /\ IF resized # {} /\ logger = LoggerNone
                           THEN /\ pc' = "aborted"
                                /\ obs' = o1
                           ELSE /\ pc' = IF members # <<>> THEN "detach"
                                         ELSE IF hib # <<>> THEN "hib" ELSE "nonhib"
                                /\ obs' = ObsWarn(o1, "no_hibernate_resized", resized)
    /\ UNCHANGED <<inputVars, asg_unlisted, nonRunVars>>

\* stop path, lines 451-457 with detach_instance (lines 359-372): the first
\* statement of detach_instance is _init_scheduler(inst), which reads the
\* run parameters from the autoscaling record and so leaves self._logger
\* None. When a call of detach_instance raises, the handler of line 457
\* logs on that logger, and the error leaves the generator
Detach ==
    /\ pc = "detach"
    /\ logger' = LoggerNone
    /\ \/ /\ asg_todo' = Tail(asg_todo)
          /\ pc' = IF Tail(asg_todo) # <<>> THEN "detach"
                   ELSE IF hibernated # <<>> THEN "hib" ELSE "nonhib"
          /\ obs' = [obs EXCEPT !.suspended = @ \cup {Head(asg_todo)}]
       \/ /\ pc' = "aborted"
          /\ obs' = ObsFault(obs, "asg")
          /\ UNCHANGED asg_todo
    /\ UNCHANGED <<inputVars, batchIdx, instance_batch, hibernated, not_hibernated,
                   instances_confirmed, get_status_count, asg_instances,
                   instances_info, asg_unlisted, nonRunVars>>

\* stop path, lines 460-477: one iteration of the hibernating stop loop
StopHibernated ==
    /\ pc = "hib"
    /\ LET o1 == ObsCall(obs, hibernated, TRUE)
       IN  \/ \* the call returns
              \E resp \in Responses(hibernated) :
                LET got == Confirmed(hibernated, resp)
                    conf == instances_confirmed \o got
                IN  /\ instances_confirmed' = conf
                    /\ pc' = PcAfterHib(not_hibernated, conf)
                    /\ obs' = ObsResponse(o1, hibernated, got)
                    /\ UNCHANGED <<inputVars, logger, batchIdx, instance_batch,
                                   hibernated, not_hibernated, get_status_count,
                                   asg_instances, instances_info, asg_todo, asg_unlisted, nonRunVars>>
           \/ \* ClientError; instance_id is the id parsed from the message of an
              \* UnsupportedHibernationConfiguration / UnsupportedOperation error,
              \* None for another error code
              \E instance_id \in AllIds \cup {NoId} :
                IF instance_id \in SeqToSet(hibernated)
                THEN LET o2 == [ObsFault(o1, "rejection")
                                 EXCEPT !.rejected = @ \cup {instance_id}]
                         h == Remove(hibernated, instance_id)
                         nh == Append(not_hibernated, instance_id)
                     IN  IF logger = LoggerNone
                         THEN \* the log call of line 473 raises AttributeError
                              BatchException(o2)
                         ELSE /\ hibernated' = h
                              /\ not_hibernated' = nh
                              /\ pc' = IF h # <<>> THEN "hib"
                                       ELSE PcAfterHib(nh, instances_confirmed)
                              /\ obs' = ObsWarn(o2, "not_hibernated", {instance_id})
                              /\ UNCHANGED <<inputVars, logger, batchIdx,
                                             instance_batch, instances_confirmed,
                                             get_status_count, asg_instances,
                                             instances_info, asg_todo, asg_unlisted, nonRunVars>>
                ELSE LET o2 == [ObsFault(o1, "error")
                                 EXCEPT !.failed = @ \cup {<<hibernated, TRUE>>}]
                     IN  IF logger = LoggerNone
                         THEN \* the log call of line 477 raises AttributeError
                              BatchException(o2)
                         ELSE \* logged; the while loop of line 460 goes round
                              /\ pc' = "hib"
                              /\ obs' = o2
                              /\ UNCHANGED <<inputVars, logger, batchIdx, localVars,
                                             nonRunVars>>
           \/ \* another exception: line 466 does not catch it
              BatchException(ObsFault(o1, "error"))

\* stop path, lines 479-485
StopNotHibernated ==
    /\ pc = "nonhib"
    /\ LET o1 == ObsCall(obs, not_hibernated, FALSE)
       IN  \/ \E resp \in Responses(not_hibernated) :
                LET got == Confirmed(not_hibernated, resp)
                    conf == instances_confirmed \o got
                IN  /\ instances_confirmed' = conf
                    /\ pc' = PcAfterCall(conf)
                    /\ obs' = ObsResponse(o1, not_hibernated, got)
                    /\ UNCHANGED <<inputVars, logger, batchIdx, instance_batch,
                                   hibernated, not_hibernated, get_status_count,
                                   asg_instances, instances_info, asg_todo, asg_unlisted, nonRunVars>>
           \/ LET o2 == [ObsFault(o1, "error")
                          EXCEPT !.failed = @ \cup {<<not_hibernated, FALSE>>}]
              IN  IF logger = LoggerNone
                  THEN \* the log call of line 485 raises AttributeError
                       BatchException(o2)
                  ELSE /\ pc' = PcAfterCall(instances_confirmed)
                       /\ obs' = o2
                       /\ UNCHANGED <<inputVars, logger, batchIdx, localVars, nonRunVars>>

\* start path, lines 545-547 and 582-583
StartCall ==
    /\ pc = "start_call"
    /\ LET o1 == ObsCall(obs, instance_ids, FALSE)
       IN  \/ \E resp \in Responses(instance_ids) :
                LET conf == Confirmed(instance_ids, resp)
                IN  /\ instances_confirmed' = conf
                    /\ pc' = PcAfterCall(conf)
                    /\ obs' = ObsResponse(o1, instance_ids, conf)
                    /\ UNCHANGED <<inputVars, logger, batchIdx, instance_batch,
                                   hibernated, not_hibernated, get_status_count,
                                   asg_instances, instances_info, asg_todo, asg_unlisted, nonRunVars>>
           \/ BatchException([ObsFault(o1, "error")
                               EXCEPT !.failed = @ \cup {<<instance_ids, FALSE>>}])

\* lines 488-502 / 550-564: the body of the `if`; each of its two `break`
\* statements leaves the for loop over the batches
PollStatus ==
    /\ pc = "poll"
    /\ LET o1 == ObsEvent(obs, instance_ids)
       IN  \/ \E resp \in Responses(instance_ids) :
                LET conf == Confirmed(instance_ids, resp)
                    count == get_status_count + 1
                    missing == SeqToSet(instance_ids) \ SeqToSet(conf)
                    o2 == o1
                IN  /\ instances_confirmed' = conf
                    /\ IF Len(conf) = Len(instance_ids)
                       THEN /\ pc' = PcAfterLoop
                            /\ obs' = o2
                            /\ UNCHANGED get_status_count
                       ELSE /\ get_status_count' = count
                            /\ IF count > 3
                               THEN IF logger = LoggerNone
                                    THEN /\ pc' = "loop"
                                         /\ obs' = o2
                                    ELSE /\ pc' = PcAfterLoop
                                         /\ obs' = ObsWarn(o2, "not_confirmed", missing)
                               ELSE /\ pc' = PcTags(conf)
                                    /\ obs' = o2
                    /\ UNCHANGED <<inputVars, logger, batchIdx, instance_batch,
                                   hibernated, not_hibernated, asg_instances,
                                   instances_info, asg_todo, asg_unlisted, nonRunVars>>
           \/ BatchException(ObsFault(o1, "error"))

\* what a failed tag call leaves: lines 514-515 / 576-577
ObsTagFailure(o) ==
    [ObsWarn(ObsFault(o, "error"), "tagging", SeqToSet(instances_confirmed))
      EXCEPT !.tagFailed = @ \cup SeqToSet(instances_confirmed)]

\* lines 506-510 / 568-572
DeleteTags ==
    /\ pc = "tag_delete"
    /\ LET o1 == ObsTagCall(obs, "delete", instances_confirmed, DeleteKeys)
       IN  \/ /\ pc' = IF CreateKeys # {} THEN "tag_create" ELSE "yield"
              /\ obs' = o1
           \/ /\ pc' = PcAfterTagFailure
              /\ obs' = ObsTagFailure(o1)
    /\ UNCHANGED <<inputVars, logger, batchIdx, localVars, nonRunVars>>

\* lines 511-513 / 573-575
CreateTags ==
    /\ pc = "tag_create"
    /\ LET o1 == ObsTagCall(obs, "create", instances_confirmed, CreateKeys)
       IN  \/ /\ pc' = "yield"
              /\ obs' = o1
           \/ /\ pc' = PcAfterTagFailure
              /\ obs' = ObsTagFailure(o1)
    /\ UNCHANGED <<inputVars, logger, batchIdx, localVars, nonRunVars>>

\* lines 517-518 / 579-580: the pairs of the batch
YieldBatch ==
    /\ pc = "yield"
    /\ pc' = "loop"
    /\ obs' = [ObsEvent(obs, instances_confirmed)
                EXCEPT !.out = @ \o [p \in DOMAIN instances_confirmed |->
                                       <<instances_confirmed[p], YieldState>>]]
    /\ UNCHANGED <<inputVars, logger, batchIdx, localVars, nonRunVars>>

\* start path, line 585 and the head of the loop of line 586
Settle ==
    /\ pc = "settle"
    /\ asg_todo' = instances_info
    /\ pc' = IF instances_info # <<>> THEN "reattach" ELSE "done"
    /\ UNCHANGED <<inputVars, logger, batchIdx, instance_batch, hibernated,
                   not_hibernated, instances_confirmed, get_status_count,
                   asg_instances, instances_info, obs, asg_unlisted, nonRunVars>>

\* start path, lines 587-592 with attach_instance (lines 374-388): a failure
\* is logged and the loop goes on
Reattach ==
    /\ pc = "reattach"
    /\ asg_todo' = Tail(asg_todo)
    /\ pc' = IF Tail(asg_todo) # <<>> THEN "reattach" ELSE "done"
    /\ LET o1 == [obs EXCEPT !.resumed = @ \cup {Head(asg_todo)}]
       IN  \/ obs' = o1
           \/ obs' = ObsFault(o1, "asg")
    /\ UNCHANGED <<inputVars, logger, batchIdx, instance_batch, hibernated,
                   not_hibernated, instances_confirmed, get_status_count,
                   asg_instances, instances_info, asg_unlisted, nonRunVars>>

Next ==
    \/ Discover
    \/ AsgQuery
    \/ BeginBatch
    \/ Detach
    \/ StopHibernated
    \/ StopNotHibernated
    \/ StartCall
    \/ PollStatus
    \/ DeleteTags
    \/ CreateTags
    \/ YieldBatch
    \/ Settle
    \/ Reattach

Spec == Init /\ [][Next]_vars

\* the generator keeps running while it has a step to take
FairSpec == Spec /\ WF_vars(Next)

\* runs of a single batch whose started and stopped tag lists draw from two
\* keys, so that the lists can share a key and differ in another
SwapKeys == {"state", "owner"}

InitTags ==
    /\ GenIdle
    /\ DiscIdle
    /\ AuxIdle
    /\ MwIdle
    /\ mode \in {"start", "stop"}
    /\ \E n \in 0 .. MaxBatch : targets = [p \in 1 .. n |-> p]
    /\ started_tags \in SUBSET SwapKeys
    /\ stopped_tags \in SUBSET SwapKeys
    /\ pc = IF mode = "start" THEN "discover" ELSE "asg_query"
    /\ logger = LoggerSet
    /\ batchIdx = 0
    /\ instance_batch = <<>>
    /\ hibernated = <<>>
    /\ not_hibernated = <<>>
    /\ instances_confirmed = <<>>
    /\ get_status_count = 0
    /\ asg_instances = <<>>
    /\ instances_info = <<>>
    /\ asg_todo = <<>>
    /\ asg_unlisted = {}
    /\ obs = ObsInit

SpecTags == InitTags /\ [][Next]_vars

\* stop runs in an account whose autoscaling membership list can take more
\* than one page; Init is the case of a list that fits in the first page
InitPaged ==
    /\ GenIdle
    /\ DiscIdle
    /\ AuxIdle
    /\ MwIdle
    /\ mode = "stop"
    /\ \E n \in 0 .. MaxTargets : targets = [p \in 1 .. n |-> p]
    /\ started_tags \in SUBSET TagKeys
    /\ stopped_tags \in SUBSET TagKeys
    /\ pc = "asg_query"
    /\ logger = LoggerSet
    /\ batchIdx = 0
    /\ instance_batch = <<>>
    /\ hibernated = <<>>
    /\ not_hibernated = <<>>
    /\ instances_confirmed = <<>>
    /\ get_status_count = 0
    /\ asg_instances = <<>>
    /\ instances_info = <<>>
    /\ asg_todo = <<>>
    /\ asg_unlisted \in AsgSets
    /\ obs = ObsInit

\* the steps of stop_instances
NextStop ==
    \/ AsgQuery
    \/ BeginBatch
    \/ Detach
    \/ StopHibernated
    \/ StopNotHibernated
    \/ PollStatus
    \/ DeleteTags
    \/ CreateTags
    \/ YieldBatch

SpecPaged == InitPaged /\ [][NextStop]_vars

\* the stop path invoked once more, lines 391-399 and 424, with the targets
\* of a run that yielded every one of them as STOPPED
InvokeAgain ==
    /\ mode = "stop"
    /\ pc = "done"
    /\ obs.prior = {}
    /\ targets # <<>>
    /\ \A i \in SeqToSet(targets) : <<i, STATE_STOPPED>> \in SeqToSet(obs.out)
    /\ pc' = "asg_query"
    /\ logger' = LoggerSet
    /\ batchIdx' = 0
    /\ instance_batch' = <<>>
    /\ hibernated' = <<>>
    /\ not_hibernated' = <<>>
    /\ instances_confirmed' = <<>>
    /\ get_status_count' = 0
    /\ asg_instances' = <<>>
    /\ asg_todo' = <<>>
    /\ obs' = [ObsInit EXCEPT !.prior = SeqToSet(targets)]
    /\ UNCHANGED <<inputVars, instances_info, asg_unlisted, nonRunVars>>

InitStop == Init /\ mode = "stop"

NextTwice == NextStop \/ InvokeAgain

SpecTwice == InitStop /\ [][NextTwice]_vars

\* ------------------------------------------------------------------------
\* Properties
\* ------------------------------------------------------------------------
\* the ids of the pairs yielded so far
OutIds == {obs.out[p][1] : p \in DOMAIN obs.out}

\* the for loop has finished the batch it entered last
BatchOver == batchIdx >= 1 /\ pc \in {"loop", "settle", "reattach", "done"}

\* the ids of the batch that lines 444 makes hibernation candidates
Eligible == {i.id : i \in {j \in SeqToSet(instance_batch) : j.hibernate /\ ~j.resized}}

\* C1: when instance_batches is exhausted, the batches it yielded,
\* concatenated, are the input in its order; every batch has between 1 and
\* `size` elements and every batch but the last has exactly `size`; the
\* generator's output is the list the runs iterate over; 12 instances with
\* START_BATCH_SIZE give batches of 5, 5 and 2.
C1_BatchesPartitionInput ==
    genPc = "done" =>
        /\ Concat(genYielded) = genInput
        /\ \A k \in DOMAIN genYielded :
              /\ Len(genYielded[k]) >= 1
              /\ Len(genYielded[k]) <= genSize
              /\ k < Len(genYielded) => Len(genYielded[k]) = genSize
        /\ genYielded = instance_batches(genInput, genSize)
        /\ (Len(genInput) = 12 /\ genSize = START_BATCH_SIZE)
              => [k \in DOMAIN genYielded |-> Len(genYielded[k])] = <<5, 5, 2>>

C1_TwelveInThreeBatches ==
    /\ genPc = "done"
    /\ Len(genInput) = 12
    /\ genSize = START_BATCH_SIZE
    /\ Len(genYielded) = 3
    /\ Len(genYielded[3]) = 2

\* C2: every provider call (start, stop, status poll, tag delete, tag
\* create) and every yield is for ids of one batch, no call is for a batch
\* before the highest batch a call or yield was already made for, none is
\* for a batch the loop has not entered, and the pairs come out in batch
\* order.
C2_BatchesInSequence ==
    /\ \A i \in obs.evIds : BatchOfId(i) = obs.hi
    /\ obs.hi <= batchIdx
    /\ \A p, q \in DOMAIN obs.out :
          p < q => BatchOfId(obs.out[p][1]) <= BatchOfId(obs.out[q][1])

C2_SecondBatchAfterFirst ==
    /\ obs.hi = 2
    /\ pc = "yield"
    /\ \E p \in DOMAIN obs.out : BatchOfId(obs.out[p][1]) = 1

\* C3: when a run in which no provider call raised has completed, every
\* target id was given to a start (stop) call, whatever the responses and
\* status polls of the earlier batches confirmed.
C3_EveryBatchIsCalled ==
    (pc = "done" /\ obs.faults = {}) => SeqToSet(targets) \subseteq obs.submitted

\* C4: when a batch is over in a run in which no provider call raised, every
\* instance the provider confirmed last (in the start/stop response, or in
\* the status poll when there was one) has been yielded with the new state.
C4_ConfirmedAreYielded ==
    (BatchOver /\ obs.faults = {}) =>
        \A i \in SeqToSet(instances_confirmed) : <<i, YieldState>> \in SeqToSet(obs.out)

\* C5: stop path; when a batch is over in which the provider rejected
\* hibernation for ids of the hibernating set, no call raised another error
\* and every stop response confirmed all the ids it was asked for, every
\* instance of the batch has been yielded as STOPPED.
C5_RejectedBatchAllStopped ==
    (/\ mode = "stop"
     /\ BatchOver
     /\ obs.rejected # {}
     /\ "error" \notin obs.faults
     /\ ~obs.short) =>
        \A i \in SeqToSet(instance_ids) : <<i, STATE_STOPPED>> \in SeqToSet(obs.out)

\* C6: within a stop batch hibernated and not_hibernated are disjoint and
\* together hold the ids of the batch; every id of hibernated that a
\* rejection named has moved to not_hibernated and nothing else has moved;
\* only ids that were not candidates or were rejected are sent with
\* Hibernate=False.
C6_HibernationSets ==
    (mode = "stop" /\ batchIdx >= 1) =>
        LET ids == SeqToSet(instance_ids)
        IN  /\ SeqToSet(hibernated) \cap SeqToSet(not_hibernated) = {}
            /\ SeqToSet(hibernated) \cup SeqToSet(not_hibernated) = ids
            /\ SeqToSet(hibernated) = Eligible \ obs.rejected
            /\ SeqToSet(not_hibernated) = (ids \ Eligible) \cup obs.rejected
            /\ obs.nohib \subseteq (ids \ Eligible) \cup obs.rejected

\* C7: a start or stop call that raised an error other than a hibernation
\* rejection is not issued again with the same ids and the same Hibernate
\* argument.
C7_FailedCallNotRepeated == ~obs.resubmitted

\* C8: every run completes: the generator is exhausted (or ends with the
\* error that left it).
C8_RunCompletes == <>(pc \in {"done", "aborted"})

\* C9: when a batch is over in a run in which no provider call raised, every
\* instance of the batch that is still not confirmed has been polled for
\* more than 3 times and has its warning.
C9_UnconfirmedAreWarned ==
    (BatchOver /\ obs.faults = {}) =>
        \A i \in SeqToSet(instance_ids) \ SeqToSet(instances_confirmed) :
            /\ get_status_count > 3
            /\ <<"not_confirmed", i>> \in obs.warnings

\* C10: after a tag delete or create raised for the confirmed instances of
\* a batch, the warning is logged for them, the confirmed list is kept, the
\* instances are yielded with their new state once the batch is over, and
\* the loop over the batches is left only after the last batch.
C10_TagFailureNotFatal ==
    obs.tagFailed # {} =>
        /\ pc \in {"yield", "loop", "settle", "reattach", "done"}
        /\ obs.tagFailed = SeqToSet(instances_confirmed)
        /\ \A i \in obs.tagFailed : <<"tagging", i>> \in obs.warnings
        /\ pc # "yield" =>
              \A i \in obs.tagFailed : <<i, YieldState>> \in SeqToSet(obs.out)
        /\ pc \in {"settle", "reattach", "done"} => batchIdx = Len(Batches)

C10_YieldedAfterTagFailure ==
    /\ obs.tagFailed # {}
    /\ pc = "loop"
    /\ batchIdx < Len(Batches)
    /\ obs.tagFailed \subseteq OutIds

\* the tag calls of lines 532-537 / 426-433 for the confirmed instances, from
\* the configured tag lists: the keys of the other list that are not keys of
\* the list being added, then the list being added
SwapDeleted ==
    IF mode = "start" THEN stopped_tags \ started_tags ELSE started_tags \ stopped_tags

SwapCreated == IF mode = "start" THEN started_tags ELSE stopped_tags

SwapCalls ==
    (IF SwapDeleted # {} THEN << <<"delete", instances_confirmed, SwapDeleted>> >> ELSE <<>>)
    \o (IF SwapCreated # {} THEN << <<"create", instances_confirmed, SwapCreated>> >> ELSE <<>>)

AsgMembers == SeqToSet(asg_instances) \cup asg_unlisted

\* C12: in the stop path every autoscaling-group member that a stop call was
\* issued for had its group suspended before.
C12_SuspendedBeforeStop ==
    mode = "stop" => (obs.submitted \cap AsgMembers) \subseteq obs.suspended

\* C13: in the start path a resume of an autoscaling group is attempted only
\* when every batch of the targets has been processed, and when the run is
\* done one has been attempted for each discovered instance that carries an
\* autoscaling group name.
C13_ReattachAfterAllBatches ==
    mode = "start" =>
        /\ obs.resumed # {} => batchIdx = Len(Batches)
        /\ pc = "done" => obs.resumed = SeqToSet(instances_info)

\* C14: a run in which an autoscaling call (membership query, suspend,
\* resume) raised does not end with an error leaving the generator.
C14_AsgFailureSwallowed == "asg" \in obs.faults => pc # "aborted"

\* C15: a stop path invoked on targets that an earlier invocation reported
\* in a stopping-family state issues no stop call for them.
C15_NoStopForStopped == obs.submitted \cap obs.prior = {}

\* ------------------------------------------------------------------------
\* Discovery: get_schedulable_instances, ec2_service.py lines 134-179
\* ------------------------------------------------------------------------
\* largest number of instances in the provider's inventory
MaxInventory == 3

\* config.tag_name
TagName == "Schedule"

\* State.Code as the provider reports it: the low byte is the lifecycle
\* state, the high byte is used by the provider for its own purposes
InventoryCodes == EC2_STATES \cup {EC2_STATE_RUNNING + 256}

\* the tag keys of an inventory entry
InventoryTags == {{}, {TagName}}

InventoryRecords == [tags : InventoryTags, code : InventoryCodes]

\* line 153: [?Tags]|[?contains(Tags[*].Key, tagname)]
HasScheduleTag(i) == TagName \in inventory[i].tags

\* line 302 (_select_instance_data): state = instance["State"]["Code"] & 0xFF
SelectedState(i) == LowByte(inventory[i].code)

\* a filter that takes the starting states for the schedulable ones
InStartingState(state) == LowByte(state) \in EC2_STARTING_STATES

\* lines 147-149
is_in_schedulable_state(state) == LowByte(state) \in EC2_SCHEDULABLE_STATES

\* line 173: "NextToken" in ec2_resp, for a response that ends at entry t
HasNextToken(t) == t < Len(inventory)

InitDiscovery ==
    /\ \E n \in 0 .. MaxInventory : inventory \in [1 .. n -> InventoryRecords]
    /\ next_token = 0
    /\ disc_instances = <<>>
    /\ number_of_instances = 0
    /\ disc_pages = 0
    /\ discPc = "fetch"
    /\ GenIdle
    /\ RunIdle
    /\ MwIdle
    /\ AuxIdle

\* lines 162-176: one iteration of the paging loop; the provider decides how
\* many entries the page holds
FetchPage ==
    /\ discPc = "fetch"
    /\ LET rest == Len(inventory) - next_token
       IN  \E k \in (IF rest = 0 THEN {0} ELSE 1 .. rest) :
             LET page == [j \in 1 .. k |-> next_token + j]
                 tagged == SelectSeq(page, HasScheduleTag)
                 selected == SelectSeq(tagged,
                                 LAMBDA i : is_in_schedulable_state(SelectedState(i)))
             IN  /\ number_of_instances' = number_of_instances + Len(tagged)
                 /\ disc_instances' = disc_instances \o selected
                 /\ next_token' = next_token + k
                 /\ disc_pages' = disc_pages + 1
                 /\ discPc' = IF HasNextToken(next_token + k) THEN "fetch" ELSE "done"
    /\ UNCHANGED <<inventory, nonDiscVars>>

NextDiscovery == FetchPage

SpecDiscovery == InitDiscovery /\ [][NextDiscovery]_vars

\* the lifecycle state of an inventory entry
Lifecycle(i) == inventory[i].code % 256

\* C16: at every point of the discovery the selected instances are, in
\* inventory order and each once, the entries of the pages fetched so far
\* that carry the schedule tag and whose lifecycle state is running or
\* stopped; no selected instance is pending, shutting down, stopping or
\* terminated; the discovery ends only when every page has been fetched.
C16_DiscoveryExact ==
    /\ disc_instances =
          SelectSeq([i \in 1 .. next_token |-> i],
                    LAMBDA i : /\ TagName \in inventory[i].tags
                               /\ Lifecycle(i) \in {EC2_STATE_RUNNING, EC2_STATE_STOPPED})
    /\ \A p, q \in DOMAIN disc_instances :
          p < q => disc_instances[p] < disc_instances[q]
    /\ \A p \in DOMAIN disc_instances :
          Lifecycle(disc_instances[p]) \notin
              {EC2_STATE_PENDING, EC2_STATE_SHUTTING_DOWN, EC2_STATE_STOPPING,
               EC2_STATE_TERMINATED}
    /\ discPc = "done" => next_token = Len(inventory)

C16_SelectedOverTwoPages ==
    /\ discPc = "done"
    /\ disc_pages = 2
    /\ Len(inventory) = 3
    /\ disc_instances = <<3>>
    /\ inventory[1].tags = {TagName}
    /\ inventory[1].code = EC2_STATE_PENDING
    /\ inventory[2].tags = {}
    /\ inventory[2].code = EC2_STATE_STOPPED
    /\ inventory[3].code = EC2_STATE_RUNNING + 256

\* the instances of the batch with hibernate set that are stopped for a resize
ResizedHibernate ==
    {i.id : i \in {j \in SeqToSet(instance_batch) : j.hibernate /\ j.resized}}

\* C17: in a stop batch hibernation is requested only for instances with
\* hibernate set that are not resized; an instance with hibernate set that
\* is stopped for a resize is in the non-hibernating set and, when the batch
\* has ended without a provider call raising, has its warning and was given
\* to a stop call with Hibernate=False.
C17_HibernateOnlyIfEligible ==
    (mode = "stop" /\ batchIdx >= 1) =>
        /\ obs.hib \subseteq Eligible
        /\ ResizedHibernate \subseteq SeqToSet(not_hibernated)
        /\ (pc \in {"loop", "done", "aborted"} /\ obs.faults = {}) =>
              \A i \in ResizedHibernate :
                  /\ i \in obs.nohib
                  /\ <<"no_hibernate_resized", i>> \in obs.warnings

\* ------------------------------------------------------------------------
\* Maintenance windows: ssm_maintenance_windows (lines 102-131) and
\* _schedule_from_maint_window (lines 204-291)
\* ------------------------------------------------------------------------
\* Time is counted from 00:00:00 of January 1 of a year of 365 days: a
\* datetime without seconds is a number of minutes, a time of day a number
\* of minutes below 24 * 60.

\* latest day of the year (0 is January 1) and longest duration in hours of
\* the windows drawn
MaxMwDay == 60
MaxMwHours == 25

DaysInMonth == <<31, 28, 31, 30, 31, 30, 31, 31, 30, 31, 30, 31>>

\* <<month, day of month>> of the day n days after the first day of month m
RECURSIVE MonthDay(_, _)
MonthDay(n, m) ==
    IF n < DaysInMonth[m] THEN <<m, n + 1>> ELSE MonthDay(n - DaysInMonth[m], m + 1)

\* datetime.day, datetime.month, datetime.time() of a datetime in minutes
DayIndex(dt) == dt \div (24 * 60)
DayOfMonth(dt) == MonthDay(DayIndex(dt) % 365, 1)[2]
MonthOf(dt) == MonthDay(DayIndex(dt) % 365, 1)[1]
TimeOf(dt) == dt % (24 * 60)

\* SchedulerConfigBuilder.get_time_from_string("HH:MM")
get_time_from_string(hh, mm) == hh * 60 + mm

\* line 205: start.replace(second=0, microsecond=0)
start_dt(start) == start \div 60

\* line 115: max(10, int(os.getenv(ENV_SCHEDULE_FREQUENCY)))
scheduler_interval(frequency) == Max(10, frequency)

\* line 206
start_before_begin(interval) == Min(interval, 10)

\* lines 207-208
begin_dt(start, interval) == start_dt(start) - start_before_begin(interval)
end_dt(start, hours) == start_dt(start) + hours * 60

\* RunningPeriod(name, begintime, endtime, monthdays, months)
RunningPeriod(name, begintime, endtime, monthdays, months) ==
    [name |-> name, begintime |-> begintime, endtime |-> endtime,
     monthdays |-> monthdays, months |-> months]

\* RunningPeriod(name, monthdays, months): no begintime, no endtime
RunningPeriodAllDay(name, monthdays, months) ==
    [name |-> name, monthdays |-> monthdays, months |-> months]

\* a second period that is restricted to the day of the first one
SecondPeriodOnBeginDay(b, e) ==
    RunningPeriod("period-2", get_time_from_string(0, 0), TimeOf(e),
                  {DayOfMonth(b)}, {MonthOf(b)})

\* lines 236-246: the second period of the two-period schedule
SecondPeriod(b, e) ==
    RunningPeriod("period-2", get_time_from_string(0, 0), TimeOf(e),
                  {DayOfMonth(e)}, {MonthOf(e)})

\* lines 204-281: the periods of the schedule
schedule_from_maint_window(start, hours, interval) ==
    LET b == begin_dt(start, interval)
        e == end_dt(start, hours)
    IN  IF DayOfMonth(b) = DayOfMonth(e)
        THEN << RunningPeriod("period", TimeOf(b), TimeOf(e),
                              {DayOfMonth(b)}, {MonthOf(b)}) >>
        ELSE IF e - b <= 24 * 60
        THEN << RunningPeriod("period-1", TimeOf(b), get_time_from_string(23, 59),
                              {DayOfMonth(b)}, {MonthOf(b)}),
                SecondPeriod(b, e) >>
        ELSE << RunningPeriod("period-1", TimeOf(b), get_time_from_string(23, 59),
                              {DayOfMonth(b)}, {MonthOf(b)}),
                RunningPeriodAllDay("period-2", {DayOfMonth(e - 24 * 60)},
                                    {MonthOf(e - 24 * 60)}),
                RunningPeriod("period-3", get_time_from_string(0, 0), TimeOf(e),
                              {DayOfMonth(e)}, {MonthOf(e)}) >>

\* the windows drawn: a day, a time of day and a second for NextExecutionTime,
\* a Duration up to MaxMwHours or of 28 days, a frequency below, at and
\* above 10 minutes
MwTimes ==
    {get_time_from_string(0, 0), get_time_from_string(0, 5),
     get_time_from_string(0, 10), get_time_from_string(12, 0),
     get_time_from_string(23, 30), get_time_from_string(23, 50),
     get_time_from_string(23, 59)}

MwSeconds == {0, 30}

MwHours == (1 .. MaxMwHours) \cup {28 * 24}

MwFrequencies == {5, 10, 15}

InitMaint ==
    /\ \E d \in 1 .. MaxMwDay, t \in MwTimes, sec \in MwSeconds :
          mw_start = (d * 24 * 60 + t) * 60 + sec
    /\ mw_hours \in MwHours
    /\ mw_frequency \in MwFrequencies
    /\ mw_schedule = <<>>
    /\ mwPc = "load"
    /\ GenIdle
    /\ RunIdle
    /\ DiscIdle
    /\ AuxIdle

\* lines 113-120: one window of the listing
LoadWindow ==
    /\ mwPc = "load"
    /\ mw_schedule' = schedule_from_maint_window(mw_start, mw_hours,
                                                 scheduler_interval(mw_frequency))
    /\ mwPc' = "done"
    /\ UNCHANGED <<mw_start, mw_hours, mw_frequency, nonMwVars>>

NextMaint == LoadWindow

SpecMaint == InitMaint /\ [][NextMaint]_vars

\* lead-start and end of the loaded window as lines 205-208 compute them
MwBegin == begin_dt(mw_start, scheduler_interval(mw_frequency))
MwEnd == end_dt(mw_start, mw_hours)

\* begintime, endtime, monthdays and months of a period
PeriodShape(p) == <<p.begintime, p.endtime, p.monthdays, p.months>>

\* C18: the schedule has exactly one period when lead-start and end fall on
\* the same calendar day, exactly two when they fall on different calendar
\* days at most 24 hours apart, and exactly three when they are more than
\* 24 hours apart.
C18_PeriodCount ==
    mwPc = "done" =>
        Len(mw_schedule) =
            IF DayIndex(MwBegin) = DayIndex(MwEnd) THEN 1
            ELSE IF MwEnd - MwBegin <= 24 * 60 THEN 2
            ELSE 3

\* C19: when lead-start and end fall on different calendar days at most 24
\* hours apart, the periods are, in this order, [lead-start time, 23:59] on
\* the day of month and month of lead-start and [00:00, end time] on the
\* day of month and month of the end; a window starting at 23:30 that lasts
\* 2 hours gives [23:20, 23:59] and [00:00, 01:30] on the next day.
C19_TwoDayPeriods ==
    (/\ mwPc = "done"
     /\ DayIndex(MwBegin) # DayIndex(MwEnd)
     /\ MwEnd - MwBegin <= 24 * 60) =>
        /\ Len(mw_schedule) = 2
        /\ PeriodShape(mw_schedule[1]) =
              <<TimeOf(MwBegin), 23 * 60 + 59,
                {DayOfMonth(MwBegin)}, {MonthOf(MwBegin)}>>
        /\ PeriodShape(mw_schedule[2]) =
              <<0, TimeOf(MwEnd), {DayOfMonth(MwEnd)}, {MonthOf(MwEnd)}>>
        /\ DayIndex(MwEnd) = DayIndex(MwBegin) + 1
        /\ (TimeOf(mw_start \div 60) = 23 * 60 + 30 /\ mw_hours = 2) =>
              /\ <<mw_schedule[1].begintime, mw_schedule[1].endtime>> =
                    <<23 * 60 + 20, 23 * 60 + 59>>
              /\ <<mw_schedule[2].begintime, mw_schedule[2].endtime>> =
                    <<0, 60 + 30>>

\* a window starting at 23:30 on January 31 that lasts 2 hours has been
\* loaded: its second period is on February 1
C19_LateWindowLoaded ==
    /\ mwPc = "done"
    /\ mw_start \div 60 = 30 * 24 * 60 + 23 * 60 + 30
    /\ mw_hours = 2
    /\ Len(mw_schedule) = 2
    /\ mw_schedule[2].monthdays = {1}
    /\ mw_schedule[2].months = {2}

\* C20: the schedule of a loaded window begins min(f, 10) minutes before
\* the next execution time truncated to the minute, f being the configured
\* frequency, and ends mw_hours hours after that truncated time.
C20_LeadIsMinOfFrequency ==
    mwPc = "done" =>
        LET first == mw_schedule[1]
            last == mw_schedule[Len(mw_schedule)]
            lead == (mw_start \div 60) - Min(mw_frequency, 10)
            end == (mw_start \div 60) + mw_hours * 60
        IN  /\ first.begintime = lead % (24 * 60)
            /\ first.monthdays = {DayOfMonth(lead)}
            /\ first.months = {MonthOf(lead)}
            /\ last.endtime = end % (24 * 60)
            /\ last.monthdays = {DayOfMonth(end)}
            /\ last.months = {MonthOf(end)}

\* ------------------------------------------------------------------------
\* Maintenance-window lookup of _select_instance_data (lines 307-316) over
\* the cache of ssm_maintenance_windows (lines 102-131)
\* ------------------------------------------------------------------------
\* window names are 1 .. MaxWindows; a run builds at most MaxLookups instance
\* records; the listing takes at most MaxWindowPages calls
MaxWindows == 2
MaxLookups == 4
MaxWindowPages == 2

WindowNames == 1 .. MaxWindows

\* line 310: a schedule that names no window (None or "")
NoWindow == 0

\* dict.get(w, None)
CacheGet(cache, w) == IF w \in DOMAIN cache THEN cache[w] ELSE "none"

\* cache[w] = v
CachePut(cache, w, v) ==
    [n \in DOMAIN cache \cup {w} |-> IF n = w THEN v ELSE cache[n]]

\* lines 105-126: the cache after the windows of L have been listed
LoadedWindows(L) == [n \in L |-> "schedule"]

\* the value of the cache handed on as it is
KeepSentinel(v) == v

\* lines 315-316
SentinelToNone(v) == IF v = "NOT-FOUND" THEN "none" ELSE v

InitLookup ==
    /\ mw_listing \in SUBSET WindowNames
    /\ mw_loaded = FALSE
    /\ mw_cache = <<>>
    /\ mw_trace = <<>>
    /\ GenIdle
    /\ RunIdle
    /\ DiscIdle
    /\ MwIdle
    /\ WdIdle
    /\ ResizeIdle
    /\ HandlerIdle
    /\ ConfigIdle

\* lines 307-316 for an instance whose schedule names window w (or none):
\* the first lookup lists the windows, in `calls` calls; a listing that
\* raises (line 128) leaves the windows L listed before the error
SelectInstanceData ==
    /\ Len(mw_trace) < MaxLookups
    /\ \E w \in WindowNames \cup {NoWindow} :
          IF w = NoWindow
          THEN /\ mw_trace' = Append(mw_trace,
                       [window |-> w, calls |-> 0, logged |-> FALSE,
                        result |-> "none"])
               /\ UNCHANGED <<mw_loaded, mw_cache>>
          ELSE \E L \in (IF mw_loaded THEN {{}} ELSE SUBSET mw_listing),
                  calls \in (IF mw_loaded THEN {0} ELSE 1 .. MaxWindowPages) :
                  LET windows == IF mw_loaded THEN mw_cache ELSE LoadedWindows(L)
                      found == CacheGet(windows, w)
                      missing == found = "none"
                  IN  /\ mw_loaded' = TRUE
                      /\ mw_cache' = IF missing
                                        THEN CachePut(windows, w, "NOT-FOUND")
                                        ELSE windows
                      /\ mw_trace' = Append(mw_trace,
                              [window |-> w, calls |-> calls, logged |-> missing,
                               result |-> SentinelToNone(found)])
    /\ UNCHANGED <<mw_listing, nonLookupVars>>

NextLookup == SelectInstanceData

SpecLookup == InitLookup /\ [][NextLookup]_vars

\* C21: for a window name that the listing does not contain, the not-found
\* error is logged on the first lookup and on no later one, the name is
\* cached as the sentinel, a later lookup lists no windows, and every
\* instance record built for it has no maintenance-window schedule.
C21_NotFoundOnce ==
    \A i \in 1 .. Len(mw_trace) :
        LET e == mw_trace[i]
            earlier == \E j \in 1 .. (i - 1) : mw_trace[j].window = e.window
        IN  (e.window \in WindowNames \ mw_listing) =>
                /\ e.result = "none"
                /\ e.logged = ~earlier
                /\ earlier => e.calls = 0
                /\ mw_cache[e.window] = "NOT-FOUND"

\* a window that is not listed has been looked up twice, after a lookup
\* of a listed window
C21_MissingLookedUpTwice ==
    /\ Len(mw_trace) >= 3
    /\ mw_trace[1].window \in mw_listing
    /\ mw_trace[1].result = "schedule"
    /\ mw_trace[2].window \in WindowNames \ mw_listing
    /\ mw_trace[3].window = mw_trace[2].window

\* ------------------------------------------------------------------------
\* WeekdaySetBuilder: the expressions weekday#n and weekdayL
\* (configuration/setbuilders/weekday_setbuilder.py)
\* ------------------------------------------------------------------------
\* the occurrence numbers drawn are -1 .. MaxOccurrence
MaxOccurrence == 6

\* calendar weekdays, Monday is 0; the lengths a month can have
Weekdays == 0 .. 6
MonthLengths == 28 .. 31

\* fn(temp[0]) is None: the token is no weekday for fn
NoWeekday == 7

\* a weekday token is a name ("mon") or a value ("0"); an unknown one stands
\* for no weekday
Tokens == [form : {"name", "value"}, weekday : Weekdays \cup {NoWeekday}]

\* the text after '#': an integer, or text that int() rejects
NumberStrings ==
    [isint : {TRUE}, value : (0 - 1) .. MaxOccurrence]
        \cup {[isint |-> FALSE, value |-> 0]}

Expressions ==
    [token : Tokens, kind : {"#"}, number : NumberStrings]
        \cup [token : Tokens, kind : {"L"}, number : {[isint |-> FALSE, value |-> 0]}]

\* the builder's year, month and day: calendar.monthrange(year, month) gives
\* the first weekday and the number of days; has is FALSE when one of
\* year, month, day is None
NoContext == [has |-> FALSE, first |-> 0, days |-> 0, day |-> 0]
Contexts ==
    {NoContext} \cup
    {c \in [has : {TRUE}, first : Weekdays, days : MonthLengths, day : 1 .. 31] :
        c.day <= c.days}

\* results of a parser: a list of weekdays, None, or a raised ValueError
Items(S) == [status |-> "set", items |-> S]
None == [status |-> "none", items |-> {}]
Error == [status |-> "error", items |-> {}]

\* _get_value_by_name, _get_value_by_str of SetBuilder
get_value_by_name(token) ==
    IF token.form = "name" THEN token.weekday ELSE NoWeekday
get_value_by_str(token) ==
    IF token.form = "value" THEN token.weekday ELSE NoWeekday

\* the first occurrence taken for every weekday as that of a Monday-first month
FirstOccurrenceIgnoringMonth(weekday, first) == 1 + weekday

\* the distance to the first occurrence taken without the modulo
FirstOccurrenceWithoutWrap(weekday, first) ==
    IF weekday # first THEN 1 + (weekday - first) ELSE 1

\* lines 116-121
get_day_for_first_occurrence_month(weekday, first) ==
    IF weekday # first THEN 1 + ((weekday - first) % 7) ELSE 1

\* every occurrence number let through
AnyNumber(number) == TRUE

\* line 100: the number is in the range 1-5
number_in_range(number) == ~(number < 1 \/ number > 5)

\* lines 88-114 for an expression with one '#'; weekday is fn(temp[0])
get_occurrence_item(e, weekday, c) ==
    IF ~e.number.isint THEN Error
    ELSE IF ~number_in_range(e.number.value) THEN Error
    ELSE IF weekday = NoWeekday THEN None
    ELSE LET day_for_number_weekday ==
                 get_day_for_first_occurrence_month(weekday, c.first)
             monthday == day_for_number_weekday + ((e.number.value - 1) * 7)
         IN  IF c.day = monthday THEN Items({weekday}) ELSE Items({})

\* the first occurrence taken as the last one
LastOccurrenceNotAdvanced(day, days_in_month) == day

\* lines 140-141
RECURSIVE LastOccurrence(_, _)
LastOccurrence(day, days_in_month) ==
    IF day + 7 <= days_in_month THEN LastOccurrence(day + 7, days_in_month)
    ELSE day

\* lines 135-143 for an expression that ends with L; weekday is
\* fn(last_weekday_str[:-1])
get_last_day_for_weekday_in_month(e, weekday, c) ==
    IF weekday = NoWeekday THEN None
    ELSE LET day_for_number_weekday ==
                 LastOccurrence(get_day_for_first_occurrence_month(weekday, c.first),
                                c.days)
         IN  IF day_for_number_weekday = c.day THEN Items({weekday}) ELSE Items({})

\* lines 58-74: the check of the modifier
requires_date_attributes(c, r) == IF ~c.has THEN Error ELSE r

\* lines 78-86, 124-133: the four parsers
parse_name_number(e, c) ==
    requires_date_attributes(c,
        IF e.kind = "#" THEN get_occurrence_item(e, get_value_by_name(e.token), c)
        ELSE None)
parse_value_number(e, c) ==
    requires_date_attributes(c,
        IF e.kind = "#" THEN get_occurrence_item(e, get_value_by_str(e.token), c)
        ELSE None)
parse_name_last_weekday(e, c) ==
    requires_date_attributes(c,
        IF e.kind = "L" THEN get_last_day_for_weekday_in_month(e, get_value_by_name(e.token),
                                                   c)
        ELSE None)
parse_value_last_weekday(e, c) ==
    requires_date_attributes(c,
        IF e.kind = "L" THEN get_last_day_for_weekday_in_month(e, get_value_by_str(e.token),
                                                   c)
        ELSE None)

\* lines 47-50: the parsers in their order; the first result that is not
\* None is the result
post_custom_parsers(e, c) ==
    LET r1 == parse_name_number(e, c)
        r2 == parse_value_number(e, c)
        r3 == parse_name_last_weekday(e, c)
        r4 == parse_value_last_weekday(e, c)
    IN  IF r1 # None THEN r1
        ELSE IF r2 # None THEN r2
        ELSE IF r3 # None THEN r3
        ELSE r4

InitWeekday ==
    /\ wd_expr \in Expressions
    /\ wd_ctx \in Contexts
    /\ wd_result = <<>>
    /\ wdPc = "build"
    /\ GenIdle
    /\ RunIdle
    /\ DiscIdle
    /\ MwIdle
    /\ LookupIdle
    /\ ResizeIdle
    /\ HandlerIdle
    /\ ConfigIdle

\* the builder applied to the expression
BuildWeekday ==
    /\ wdPc = "build"
    /\ wd_result' = post_custom_parsers(wd_expr, wd_ctx)
    /\ wdPc' = "done"
    /\ UNCHANGED <<wd_expr, wd_ctx, nonWdVars>>

NextWeekday == BuildWeekday

SpecWeekday == InitWeekday /\ [][NextWeekday]_vars

\* the weekday of day d of a month whose first day has weekday first
WeekdayOf(d, first) == (first + d - 1) % 7

\* C22: with a date context, w#n for n in 1..5 gives {w} iff the day is
\* 1 + ((w - first weekday of the month) mod 7) + 7 * (n - 1), and the empty
\* set otherwise; in a month that starts on a Monday mon#1 matches day 1
\* only and mon#2 day 8 only.
C22_NthOccurrence ==
    (/\ wdPc = "done"
     /\ wd_ctx.has
     /\ wd_expr.kind = "#"
     /\ wd_expr.number.isint
     /\ wd_expr.number.value \in 1 .. 5
     /\ wd_expr.token.weekday \in Weekdays) =>
        LET w == wd_expr.token.weekday
            n == wd_expr.number.value
        IN  /\ wd_result.status = "set"
            /\ wd_result.items =
                  IF wd_ctx.day = 1 + ((w - wd_ctx.first) % 7) + 7 * (n - 1)
                  THEN {w} ELSE {}
            /\ (wd_ctx.first = 0 /\ w = 0 /\ n = 1) =>
                  (wd_result.items # {} <=> wd_ctx.day = 1)
            /\ (wd_ctx.first = 0 /\ w = 0 /\ n = 2) =>
                  (wd_result.items # {} <=> wd_ctx.day = 8)

\* mon#2 has matched day 8 of a month that starts on a Monday
C22_SecondMondayMatched ==
    /\ wdPc = "done"
    /\ wd_ctx.has /\ wd_ctx.first = 0 /\ wd_ctx.day = 8
    /\ wd_expr.kind = "#"
    /\ wd_expr.token = [form |-> "name", weekday |-> 0]
    /\ wd_expr.number = [isint |-> TRUE, value |-> 2]
    /\ wd_result = Items({0})

\* C23: with a date context, wL gives {w} iff the day is the last day of
\* the month whose weekday is w, and the empty set otherwise; in a month of
\* 31 days that starts on a Thursday friL matches day 30 only.
C23_LastOccurrence ==
    (/\ wdPc = "done"
     /\ wd_ctx.has
     /\ wd_expr.kind = "L"
     /\ wd_expr.token.weekday \in Weekdays) =>
        LET w == wd_expr.token.weekday
            last == /\ WeekdayOf(wd_ctx.day, wd_ctx.first) = w
                    /\ wd_ctx.day + 7 > wd_ctx.days
        IN  /\ wd_result.status = "set"
            /\ wd_result.items = IF last THEN {w} ELSE {}
            /\ (wd_ctx.first = 3 /\ wd_ctx.days = 31 /\ w = 4) =>
                  (wd_result.items # {} <=> wd_ctx.day = 30)

\* friL has matched day 30 of a month of 31 days that starts on a Thursday
C23_LastFridayMatched ==
    /\ wdPc = "done"
    /\ wd_ctx = [has |-> TRUE, first |-> 3, days |-> 31, day |-> 30]
    /\ wd_expr.kind = "L"
    /\ wd_expr.token = [form |-> "name", weekday |-> 4]
    /\ wd_result = Items({4})

\* C24: token#x with x no integer, or an integer outside 1..5, fails with
\* an error for every token and every date context; it gives no set.
C24_BadOccurrenceFails ==
    (/\ wdPc = "done"
     /\ wd_expr.kind = "#"
     /\ \/ ~wd_expr.number.isint
        \/ wd_expr.number.value \notin 1 .. 5) =>
        wd_result.status = "error"

\* an expression with occurrence number 6 and one with a number that is
\* no integer have been built with a date context and a known weekday
C24_BadOccurrenceBuilt ==
    /\ wdPc = "done"
    /\ wd_ctx.has
    /\ wd_expr.kind = "#"
    /\ wd_expr.token.weekday \in Weekdays
    /\ wd_expr.number.isint
    /\ wd_expr.number.value = 6
    /\ wd_result = Error

\* the expressions w#n and wL, by name or by value, and whether one matches
\* the day of a context
OccurrenceOf(form, w, n) ==
    [token |-> [form |-> form, weekday |-> w], kind |-> "#",
     number |-> [isint |-> TRUE, value |-> n]]
LastOf(form, w) ==
    [token |-> [form |-> form, weekday |-> w], kind |-> "L",
     number |-> [isint |-> FALSE, value |-> 0]]
Matches(e, c) == post_custom_parsers(e, c).items # {}

\* C36: for every month shape and every day d of the month, with w the
\* weekday of d, exactly one n in 1..5 makes w#n match d and v#n matches d
\* for no other weekday v and no n; wL matches exactly one day of the month,
\* and w#4 or w#5 matches that day. The expression built, one of w by name
\* or by value, has matched d as that n and that last day say.
C36_OccurrencesPartitionMonth ==
    (/\ wdPc = "done"
     /\ wd_ctx.has
     /\ wd_expr.token.weekday = WeekdayOf(wd_ctx.day, wd_ctx.first)) =>
        LET c == wd_ctx
            w == wd_expr.token.weekday
            form == wd_expr.token.form
            on(d) == [c EXCEPT !.day = d]
            nth == {n \in 1 .. 5 : Matches(OccurrenceOf(form, w, n), c)}
            last == {d \in 1 .. c.days : Matches(LastOf(form, w), on(d))}
        IN  /\ Cardinality(nth) = 1
            /\ \A v \in Weekdays \ {w} : \A n \in 1 .. 5 :
                  ~Matches(OccurrenceOf(form, v, n), c)
            /\ Cardinality(last) = 1
            /\ \A d \in last :
                  \/ Matches(OccurrenceOf(form, w, 4), on(d))
                  \/ Matches(OccurrenceOf(form, w, 5), on(d))
            /\ (wd_expr.kind = "#" /\ wd_expr.number.isint) =>
                  (wd_result.items # {} <=> wd_expr.number.value \in nth)
            /\ wd_expr.kind = "L" =>
                  (wd_result.items # {} <=> c.day \in last)

\* w#5 has matched day 31 of a month of 31 days
C36_FifthOccurrenceMatched ==
    /\ wdPc = "done"
    /\ wd_ctx.has /\ wd_ctx.days = 31 /\ wd_ctx.day = 31
    /\ wd_expr = OccurrenceOf("name", WeekdayOf(31, wd_ctx.first), 5)
    /\ wd_result = Items({WeekdayOf(31, wd_ctx.first)})

\* ------------------------------------------------------------------------
\* resize_instance (lines 337-351), called for one instance after another
\* ------------------------------------------------------------------------
\* a run resizes at most MaxResize instances
MaxResize == 4

InstanceTypes == {"small", "large"}

\* lines 83-89 with the arguments of the call: the logger of the caller
init_scheduler_logger(kwargs_logger) == kwargs_logger

\* an error of the provider call that leaves the method
ResizeFailureRaised == "raised"

\* lines 350-351: the except clause logs the error, the method returns
ResizeFailureCaught == "returned"

InitResize ==
    /\ resize_todo \in {[j \in 1 .. n |-> j] : n \in 1 .. MaxResize}
    /\ resize_logger = "none"
    /\ resize_trace = <<>>
    /\ resizePc = "run"
    /\ GenIdle
    /\ RunIdle
    /\ DiscIdle
    /\ MwIdle
    /\ LookupIdle
    /\ WdIdle
    /\ HandlerIdle
    /\ ConfigIdle

\* lines 337-351 for the next instance: the provider changes the type or
\* raises
ResizeInstance ==
    /\ resizePc = "run"
    /\ resize_todo # <<>>
    /\ \E instance_type \in InstanceTypes, failed \in BOOLEAN :
          LET logger1 == init_scheduler_logger("set")
              outcome == IF logger1 = "none" THEN "raised"
                         ELSE IF failed THEN ResizeFailureCaught
                         ELSE "returned"
          IN  /\ resize_logger' = logger1
              /\ resize_trace' = Append(resize_trace,
                      [id |-> Head(resize_todo), type |-> instance_type,
                       failed |-> failed,
                       logged |-> failed /\ outcome = "returned",
                       outcome |-> outcome])
              /\ resize_todo' = IF outcome = "returned" THEN Tail(resize_todo)
                                 ELSE resize_todo
              /\ resizePc' = IF outcome = "raised" THEN "aborted"
                              ELSE IF Tail(resize_todo) = <<>> THEN "done"
                              ELSE "run"
    /\ UNCHANGED nonResizeVars

NextResize == ResizeInstance

SpecResize == InitResize /\ [][NextResize]_vars

\* C25: resize_instance never hands a failure of the provider to its
\* caller: a failed change of the instance type is logged and the call
\* returns, so the instances after it are still processed.
C25_ResizeFailureContained ==
    /\ resizePc # "aborted"
    /\ \A i \in 1 .. Len(resize_trace) :
          /\ resize_trace[i].outcome = "returned"
          /\ resize_trace[i].id = i
          /\ resize_trace[i].logged = resize_trace[i].failed
    /\ resizePc = "done" => resize_todo = <<>>

\* a change of type has failed and a later instance has been resized
C25_ResizedAfterFailure ==
    /\ Len(resize_trace) >= 2
    /\ resize_trace[1].failed
    /\ ~resize_trace[2].failed
    /\ resizePc = "done"

\* ------------------------------------------------------------------------
\* ScheduleResourceHandler: the create request of a schedule resource
\* (requesthandlers/schedule_resource_handler.py)
\* ------------------------------------------------------------------------
\* a schedule resource has at most MaxPeriods periods
MaxPeriods == 2

\* lines 56-71
VALID_SCHEDULE_PROPERTIES ==
    {"Description", "Enforced", "RetainRunning", "Metrics", "Name",
     "OverrideStatus", "Overwrite", "Periods", "StopNewInstances", "Timezone",
     "UseMaintenanceWindow", "SsmMaintenanceWindow", "NoStackPrefix",
     "ServiceToken", "Timeout"}

\* lines 73-80
VALID_PERIOD_PROPERTIES ==
    {"BeginTime", "Description", "EndTime", "InstanceType", "MonthDays",
     "Months", "WeekDays"}

\* the property names the resources drawn are made of
ResourcePropertyNames == {"Timezone", "Hibernate", "UseMaintenaceWindow", "Colour"}
PeriodPropertyNames == {"BeginTime", "InstanceType", "Colour"}

PeriodLists ==
    UNION {[1 .. n -> SUBSET PeriodPropertyNames] : n \in 0 .. MaxPeriods}

\* lines 189-190: the spelling of an older release
FixedTypo(pr) ==
    IF pr = "UseMaintenaceWindow" THEN "UseMaintenanceWindow" ELSE pr

\* every property of a period let through
AnyPeriodProperties(period) == TRUE

\* lines 137-139
valid_period_properties(period) ==
    \A p \in period : p \in VALID_PERIOD_PROPERTIES

\* lines 186-193
valid_schedule_properties(ps) ==
    \A pr \in ps : FixedTypo(pr) \in VALID_SCHEDULE_PROPERTIES

\* a rollback that deletes nothing
KeepPeriods(stored, i) == stored

\* lines 165-174: periods 1, 2, ... are deleted up to the first name that
\* is not stored
RECURSIVE delete_periods(_, _)
delete_periods(stored, i) ==
    IF i \in stored THEN delete_periods(stored \ {i}, i + 1) ELSE stored

\* the ghost of a request: the store before it, the periods it created and
\* the call of the store that raised ("none", "delete", "create")
Trace(before, created, fault) ==
    [before |-> before, created |-> created, fault |-> fault]

\* the stored definitions a request can find: none for a create request,
\* a schedule with its periods 1 .. m for an update
StoredSchedules ==
    {[schedule |-> TRUE, periods |-> 1 .. m] : m \in 0 .. MaxPeriods}

InitHandler ==
    /\ rh_props \in SUBSET ResourcePropertyNames
    /\ rh_periods \in PeriodLists
    /\ rh_request \in {"Create", "Update"}
    /\ rh_store \in IF rh_request = "Create"
                    THEN {[schedule |-> FALSE, periods |-> {}]}
                    ELSE StoredSchedules
    /\ rh_result = "none"
    /\ rh_trace = <<>>
    /\ rhPc = "request"
    /\ GenIdle
    /\ RunIdle
    /\ DiscIdle
    /\ MwIdle
    /\ LookupIdle
    /\ WdIdle
    /\ ResizeIdle
    /\ ConfigIdle

\* _create_schedule (lines 176-227) with _create_period (lines 130-163) on
\* the store: admin_fail is the call of the store that raises,
\* create_period of period k for k up to the number of periods,
\* create_schedule for one more, none for 0. The result is the store, the
\* periods created and whether the method returned
create_schedule(store, props, periods, admin_fail) ==
    IF ~valid_schedule_properties(props)
    THEN [store |-> store, created |-> {}, ok |-> FALSE]
    ELSE LET n == Len(periods)
             bad == {k \in 1 .. n :
                        \/ ~valid_period_properties(periods[k])
                        \/ k = admin_fail}
             first_bad == CHOOSE k \in bad : \A j \in bad : k <= j
             created == IF bad = {} THEN 1 .. n ELSE 1 .. (first_bad - 1)
             failed == bad # {} \/ admin_fail = n + 1
             stored == store.periods \cup created
         IN  [store |-> IF failed
                        THEN [store EXCEPT !.periods = delete_periods(stored, 1)]
                        ELSE [schedule |-> TRUE, periods |-> stored],
              created |-> created,
              ok |-> ~failed]

\* lines 229-233: the schedule is deleted, and its periods when it was stored
delete_schedule(store) ==
    IF store.schedule
    THEN [schedule |-> FALSE, periods |-> delete_periods(store.periods, 1)]
    ELSE store

\* the call of the store that raised in create_schedule
CreateFault(props, periods, admin_fail) ==
    IF valid_schedule_properties(props) /\ admin_fail # 0
          /\ \A k \in 1 .. Min(admin_fail - 1, Len(periods)) :
                valid_period_properties(periods[k])
    THEN "create" ELSE "none"

\* lines 239-247 with _create_schedule
CreateRequest ==
    /\ rhPc = "request"
    /\ rh_request = "Create"
    /\ \E admin_fail \in 0 .. (Len(rh_periods) + 1) :
          LET r == create_schedule(rh_store, rh_props, rh_periods, admin_fail)
          IN  /\ rh_result' = IF r.ok THEN "True" ELSE "False"
              /\ rh_store' = r.store
              /\ rh_trace' = Trace(rh_store, r.created,
                                   CreateFault(rh_props, rh_periods, admin_fail))
    /\ rhPc' = "done"
    /\ UNCHANGED <<rh_props, rh_periods, rh_request, nonHandlerVars>>

\* lines 249-257 with _update_schedule (lines 235-237): the stored
\* definition is deleted, then the new one is created; delete_schedule of
\* the store may raise
UpdateRequest ==
    /\ rhPc = "request"
    /\ rh_request = "Update"
    /\ \/ /\ rh_result' = "False"
          /\ rh_store' = rh_store
          /\ rh_trace' = Trace(rh_store, {}, "delete")
       \/ \E admin_fail \in 0 .. (Len(rh_periods) + 1) :
            LET r == create_schedule(delete_schedule(rh_store), rh_props,
                                     rh_periods, admin_fail)
            IN  /\ rh_result' = IF r.ok THEN "True" ELSE "False"
                /\ rh_store' = r.store
                /\ rh_trace' = Trace(rh_store, r.created,
                                     CreateFault(rh_props, rh_periods, admin_fail))
    /\ rhPc' = "done"
    /\ UNCHANGED <<rh_props, rh_periods, rh_request, nonHandlerVars>>

NextHandler == CreateRequest \/ UpdateRequest

SpecHandler == InitHandler /\ [][NextHandler]_vars

\* C26 as stated: creating a schedule resource that has a property name
\* outside the valid schedule properties, or a period with a property name
\* outside the valid period properties, reports failure and stores no
\* schedule.
C26_InvalidPropertyFails ==
    (/\ rhPc = "done"
     /\ rh_request = "Create"
     /\ \/ ~(rh_props \subseteq VALID_SCHEDULE_PROPERTIES)
        \/ \E k \in 1 .. Len(rh_periods) :
              ~(rh_periods[k] \subseteq VALID_PERIOD_PROPERTIES)) =>
        /\ rh_result = "False"
        /\ ~rh_store.schedule

\* C26 amended: creating a schedule resource that has a property name that
\* is neither a valid schedule property nor the spelling UseMaintenaceWindow
\* of an older release, or a period with a property name outside the valid
\* period properties, reports failure and stores no schedule.
C26_InvalidPropertyFailsButTypo ==
    (/\ rhPc = "done"
     /\ rh_request = "Create"
     /\ \/ ~(rh_props \ {"UseMaintenaceWindow"} \subseteq VALID_SCHEDULE_PROPERTIES)
        \/ \E k \in 1 .. Len(rh_periods) :
              ~(rh_periods[k] \subseteq VALID_PERIOD_PROPERTIES)) =>
        /\ rh_result = "False"
        /\ ~rh_store.schedule

\* a create request whose second period has an unknown property has
\* failed after its first period was created
C26_SecondPeriodInvalid ==
    /\ rhPc = "done"
    /\ rh_request = "Create"
    /\ rh_props \subseteq VALID_SCHEDULE_PROPERTIES
    /\ Len(rh_periods) = 2
    /\ rh_periods[1] = {"BeginTime"}
    /\ "Colour" \in rh_periods[2]
    /\ rh_result = "False"

\* lines 195-207: the properties _create_schedule forwards to the stored
\* schedule
ForwardedScheduleProperties ==
    {"Metrics", "Overwrite", "OverrideStatus", "UseMaintenanceWindow",
     "Enforced", "Hibernate", "RetainRunning", "StopNewInstances", "Timezone",
     "Description", "SsmMaintenanceWindow"}

\* C33: a create request whose resource properties are all properties that
\* _create_schedule forwards to the stored schedule, whose periods are all
\* valid and during which no call of the store raises, succeeds and stores
\* the schedule.
C33_ForwardedAccepted ==
    (/\ rhPc = "done"
     /\ rh_request = "Create"
     /\ rh_props \subseteq ForwardedScheduleProperties
     /\ \A k \in DOMAIN rh_periods : valid_period_properties(rh_periods[k])
     /\ rh_trace.fault = "none")
    => (rh_result = "True" /\ rh_store.schedule)

\* C34: after a create request that failed, none of the periods the request
\* created is stored.
C34_RollbackDeletesAll ==
    (rhPc = "done" /\ rh_request = "Create" /\ rh_result = "False")
    => rh_trace.created \cap rh_store.periods = {}

\* a create request with MaxPeriods valid periods, all created, whose
\* create_schedule raised
C34_ScheduleErrorAfterPeriods ==
    /\ rhPc = "done"
    /\ rh_request = "Create"
    /\ rh_result = "False"
    /\ Len(rh_periods) = MaxPeriods
    /\ rh_trace.created = 1 .. MaxPeriods
    /\ rh_trace.fault = "create"

\* C35: after an update request that failed while the new schedule or its
\* periods were created, the schedule and the periods stored before the
\* update are still stored.
C35_FailedUpdateKeepsOld ==
    (/\ rhPc = "done"
     /\ rh_request = "Update"
     /\ rh_result = "False"
     /\ rh_trace.fault # "delete")
    => (/\ rh_store.schedule
        /\ rh_trace.before.periods \subseteq rh_store.periods)

\* ------------------------------------------------------------------------
\* The cached scheduler configuration (configuration/__init__.py, lines
\* 128-154)
\* ------------------------------------------------------------------------
\* at most MaxConfigCalls calls of the two functions are made
MaxConfigCalls == 5

\* line 128: __configuration = None; a loaded configuration is the number
\* of the load that built it
NoConfiguration == 0

\* the configuration loaded at every call
AlwaysLoad(configuration) == TRUE

\* line 137
must_load(configuration) == configuration = NoConfiguration

InitConfig ==
    /\ cfg_configuration = NoConfiguration
    /\ cfg_loads = 0
    /\ cfg_trace = <<>>
    /\ GenIdle
    /\ RunIdle
    /\ DiscIdle
    /\ MwIdle
    /\ LookupIdle
    /\ WdIdle
    /\ ResizeIdle
    /\ HandlerIdle

\* lines 131-145: reading or building the configuration may raise, the
\* cache is then left as it was
get_scheduler_configuration ==
    /\ Len(cfg_trace) < MaxConfigCalls
    /\ IF must_load(cfg_configuration)
       THEN \E raised \in BOOLEAN :
              IF raised
              THEN /\ cfg_trace' = Append(cfg_trace,
                           [op |-> "get", loaded |-> FALSE,
                            returned |-> NoConfiguration])
                   /\ UNCHANGED <<cfg_configuration, cfg_loads>>
              ELSE /\ cfg_loads' = cfg_loads + 1
                   /\ cfg_configuration' = cfg_loads + 1
                   /\ cfg_trace' = Append(cfg_trace,
                           [op |-> "get", loaded |-> TRUE,
                            returned |-> cfg_loads + 1])
       ELSE /\ cfg_trace' = Append(cfg_trace,
                    [op |-> "get", loaded |-> FALSE,
                     returned |-> cfg_configuration])
            /\ UNCHANGED <<cfg_configuration, cfg_loads>>
    /\ UNCHANGED nonConfigVars

\* lines 148-154
unload_scheduler_configuration ==
    /\ Len(cfg_trace) < MaxConfigCalls
    /\ cfg_configuration' = NoConfiguration
    /\ cfg_trace' = Append(cfg_trace,
            [op |-> "unload", loaded |-> FALSE, returned |-> NoConfiguration])
    /\ UNCHANGED <<cfg_loads, nonConfigVars>>

NextConfig == get_scheduler_configuration \/ unload_scheduler_configuration

SpecConfig == InitConfig /\ [][NextConfig]_vars

\* call j returned a configuration and no unload lies between it and call i
ServedSince(j, i) ==
    /\ cfg_trace[j].op = "get"
    /\ cfg_trace[j].returned # NoConfiguration
    /\ \A k \in (j + 1) .. (i - 1) : cfg_trace[k].op # "unload"

\* C27: a call of get_scheduler_configuration that returns loads the
\* configuration iff no earlier call has returned one since the last
\* unload (or since the start); calls with no unload between them return
\* the same configuration, so one load serves them all, and the first call
\* that returns after an unload returns a newly loaded configuration.
C27_LoadedOncePerUnload ==
    \A i \in 1 .. Len(cfg_trace) :
        LET e == cfg_trace[i]
            served == {j \in 1 .. (i - 1) : ServedSince(j, i)}
        IN  (e.op = "get" /\ e.returned # NoConfiguration) =>
                /\ e.loaded = (served = {})
                /\ \A j \in served : cfg_trace[j].returned = e.returned
                /\ served = {} =>
                      \A j \in 1 .. (i - 1) : cfg_trace[j].returned # e.returned

\* two calls have returned the first configuration, and after an unload
\* a call has returned a second one
C27_ReloadedAfterUnload ==
    /\ Len(cfg_trace) = 4
    /\ cfg_trace[1].loaded
    /\ cfg_trace[2].op = "get" /\ ~cfg_trace[2].loaded
    /\ cfg_trace[2].returned = cfg_trace[1].returned
    /\ cfg_trace[3].op = "unload"
    /\ cfg_trace[4].loaded
    /\ cfg_loads = 2

\* C28: suspending the autoscaling group of an instance in the stop path
\* leaves the run context of the service as it was: the logger (like the
\* session, the context, the region, the account and the tag name, which
\* line 361 sets in the same way) has the same value after detach_instance
\* as before it.
C28_DetachKeepsContext == [][Detach => logger' = logger]_vars

\* a period is active at a minute: the day of the month and the month
\* match and the time of day is in [begintime, endtime), the whole day for
\* a period without times
PeriodOnDay(p, d) ==
    /\ DayOfMonth(d * 24 * 60) \in p.monthdays
    /\ MonthOf(d * 24 * 60) \in p.months

PeriodAtTime(p, time) ==
    "begintime" \in DOMAIN p => (p.begintime <= time /\ time < p.endtime)

PeriodActive(p, t) == PeriodOnDay(p, DayIndex(t)) /\ PeriodAtTime(p, TimeOf(t))

\* C29: the schedule built for a window covers the whole window: at every
\* minute t with lead-start <= t < end one of its periods is active.
C29_WindowCovered ==
    mwPc = "done" =>
        \A t \in MwBegin .. (MwEnd - 1) :
            \E k \in 1 .. Len(mw_schedule) : PeriodActive(mw_schedule[k], t)

\* C30: the schedule built for a window is not active outside the window:
\* on the days from the day of lead-start to the day of the end, no period
\* is active at a minute before lead-start or at or after the end.
C30_IdleOutsideWindow ==
    mwPc = "done" =>
        LET b == MwBegin
            e == MwEnd
        IN  \A d \in DayIndex(b) .. DayIndex(e), k \in 1 .. Len(mw_schedule) :
                PeriodOnDay(mw_schedule[k], d) =>
                    \A time \in 0 .. (24 * 60 - 1) :
                        PeriodAtTime(mw_schedule[k], time) =>
                            (b <= d * 24 * 60 + time /\ d * 24 * 60 + time < e)

\* C31: every pair the start path yields is (id, RUNNING) and every pair
\* the stop path yields is (id, STOPPED), with id among the ids of the batch
\* being processed, and no id is yielded more than once in a run: whenever
\* the pairs yielded change, the earlier pairs are kept and every new pair
\* has the state of the path, an id of instance_batch and an id that no
\* other pair has.
C31_PairsOfTheBatch ==
    [][obs'.out # obs.out =>
         /\ Len(obs'.out) > Len(obs.out)
         /\ SubSeq(obs'.out, 1, Len(obs.out)) = obs.out
         /\ \A p \in (Len(obs.out) + 1) .. Len(obs'.out) :
               /\ obs'.out[p][2] =
                     IF mode = "start" THEN STATE_RUNNING ELSE STATE_STOPPED
               /\ obs'.out[p][1] \in {i.id : i \in SeqToSet(instance_batch)}
               /\ \A q \in 1 .. (p - 1) : obs'.out[q][1] # obs'.out[p][1]]_vars

\* the stop path has yielded an instance of the first batch and one of the
\* second batch
C31_TwoBatchesYielded ==
    /\ mode = "stop"
    /\ batchIdx = 2
    /\ \E p, q \in DOMAIN obs.out :
          /\ p < q
          /\ BatchOfId(obs.out[p][1]) = 1
          /\ BatchOfId(obs.out[q][1]) = 2
          /\ obs.out[q][2] = STATE_STOPPED

\* C32: the start path resumes the scaling processes only for the
\* autoscaling groups of instances that are start targets of the run; the
\* group of a discovered instance that is no start target is left alone.
C32_ResumeOnlyTargets ==
    mode = "start" => obs.resumed \subseteq SeqToSet(targets)

====
